---- MODULE Spec2Model ----
(***************************************************************************)
(* Model of the Convex image-generation backend (images.ts): the `images`  *)
(* table with its create / update mutations, the list query and the        *)
(* generate action, whose awaits are the interleaving points of            *)
(* concurrently running invocations.                                       *)
(***************************************************************************)
EXTENDS Integers, Sequences, FiniteSets, TLC

VARIABLES
    now,        \* the wall clock read by Date.now()
    env,        \* process.env: HF_TOKEN and FAL_KEY, each absent or a string
    db,         \* the images table, in insertion order (_id = position)
    history,    \* per record, the statuses of the update patches applied to it
    inv         \* per invocation of generate, the locals of its handler

vars == <<now, env, db, history, inv>>

\* ---------------------------------------------------------------- bounds
MaxInv == 2         \* generate invocations, all of which may run together
MaxClock == 1       \* largest value of the clock

Invs == 1..MaxInv

\* ------------------------------------------------------------- constants
FAL_MODEL_NAME == "fal-ai/nano-banana-pro"
HUGGINGFACE_MODEL_NAME == "ByteDance/SDXL-Lightning"
HUGGINGFACE_BASE_SIZE == 1024
DefaultLimit == 24
MinImages == 1
MaxImages == 4
DimensionMultiple == 64

\* An optional value is a sequence of length 0 (undefined) or 1.
None == <<>>
Some(x) == <<x>>
IsSome(o) == Len(o) = 1
Get(o) == o[1]

\* --------------------------------------------------------- JS numbers
\* A JS number is an integer or NaN (v.number() accepts both).
Num(n) == [nan |-> FALSE, val |-> n]
NaN == [nan |-> TRUE, val |-> 0]

MathMax(a, b) ==
    IF a.nan \/ b.nan THEN NaN ELSE IF a.val >= b.val THEN a ELSE b

MathMin(a, b) ==
    IF a.nan \/ b.nan THEN NaN ELSE IF a.val <= b.val THEN a ELSE b

\* index < numImages, false when numImages is NaN
JsLess(i, n) == ~n.nan /\ i < n.val

\* ------------------------------------------------------------ validators
AspectRatios == {"1:1", "4:3", "3:2", "16:9", "9:16"}
Resolutions == {"1K", "2K", "4K"}
OutputFormats == {"png", "jpeg", "webp"}
Providers == {"fal", "huggingface"}

\* ------------------------------------------------------ pure helpers
ASPECT_RATIO_MAP(aspectRatio) ==
    CASE aspectRatio = "1:1" -> Some(<<1, 1>>)
      [] aspectRatio = "4:3" -> Some(<<4, 3>>)
      [] aspectRatio = "3:2" -> Some(<<3, 2>>)
      [] aspectRatio = "16:9" -> Some(<<16, 9>>)
      [] aspectRatio = "9:16" -> Some(<<9, 16>>)
      [] OTHER -> None

\* Math.round(num / den) for positive integers: floor(num / den + 1/2)
RoundDiv(num, den) == (2 * num + den) \div (2 * den)

\* roundToMultiple with Math.floor in place of Math.round
roundToMultipleMutFloor(num, den, multiple) ==
    LET r == (num \div (den * multiple)) * multiple
    IN  IF r >= multiple THEN r ELSE multiple

\* roundToMultiple applied to the rational value num / den:
\* Math.max(multiple, Math.round(value / multiple) * multiple)
roundToMultiple(num, den, multiple) ==
    LET r == RoundDiv(num, den * multiple) * multiple
    IN  IF r >= multiple THEN r ELSE multiple

normalizeProvider(provider) ==
    IF provider = Some("huggingface") THEN "huggingface" ELSE "fal"

resolveHuggingFaceDimensions(aspectRatio) ==
    LET m == ASPECT_RATIO_MAP(aspectRatio)
        ratio == IF IsSome(m) THEN Get(m) ELSE <<1, 1>>
        ratioWidth == ratio[1]
        ratioHeight == ratio[2]
        big == IF ratioWidth >= ratioHeight THEN ratioWidth ELSE ratioHeight
        \* scale = HUGGINGFACE_BASE_SIZE / big, kept as a fraction
    IN  [width |-> roundToMultiple(ratioWidth * HUGGINGFACE_BASE_SIZE, big,
                                   DimensionMultiple),
         height |-> roundToMultiple(ratioHeight * HUGGINGFACE_BASE_SIZE, big,
                                    DimensionMultiple)]

\* Math.min(4, Math.max(1, args.numImages ?? 1))
clampNumImages(numImages) ==
    MathMin(Num(MaxImages),
            MathMax(Num(MinImages),
                    IF IsSome(numImages) THEN Get(numImages) ELSE Num(MinImages)))

\* ------------------------------------------------------- thrown values
\* What a catch clause receives: an Error with a message, or another value.
Err(msg) == [isError |-> TRUE, message |-> msg]
NonError == [isError |-> FALSE, message |-> ""]

MissingHfToken == Err("Missing HF_TOKEN environment variable.")
MissingFalKey == Err("Missing FAL_KEY environment variable.")
NoImages == Err("Hugging Face returned no images.")
ValidationError == Err("ArgumentValidationError")
MutationError == Err("mutation failed")
StorageError == Err("storage failed")

\* What a provider call may throw.
ProviderThrows == {Err("provider request failed"), Err(""), NonError}

\* the message read without the instanceof test
errorMessageMutRaw(error) == error.message

\* error instanceof Error ? error.message : "Unexpected image generation error."
errorMessage(error) ==
    IF error.isError THEN error.message ELSE "Unexpected image generation error."

\* !process.env.X : undefined and the empty string are both falsy
Falsy(o) == ~IsSome(o) \/ Get(o) = ""

\* ------------------------------------------------------------ the table
\* URL that ctx.storage.getUrl gives for the blob of the k-th per-image call
StorageUrl(k) == <<"blob-url-1", "blob-url-2", "blob-url-3", "blob-url-4">>[k]

\* create: db.insert("images", args); optional fields start undefined
NewRecord(id, fields) ==
    [_id |-> id,
     prompt |-> fields.prompt,
     model |-> fields.model,
     provider |-> fields.provider,
     aspectRatio |-> fields.aspectRatio,
     resolution |-> fields.resolution,
     outputFormat |-> fields.outputFormat,
     numImages |-> fields.numImages,
     status |-> fields.status,
     createdAt |-> fields.createdAt,
     updatedAt |-> fields.updatedAt,
     imageUrls |-> None,
     requestId |-> None,
     error |-> None]

\* a patch that also resets createdAt to the time of the patch
PatchMutTouchCreatedAt(rec, fields) ==
    [k \in DOMAIN rec |-> IF k \in DOMAIN fields THEN fields[k]
                          ELSE IF k = "createdAt" /\ "updatedAt" \in DOMAIN fields
                               THEN fields.updatedAt
                               ELSE rec[k]]

\* update: db.patch(id, fields) overwrites exactly the fields given
Patch(rec, fields) ==
    [k \in DOMAIN rec |-> IF k \in DOMAIN fields THEN fields[k] ELSE rec[k]]

\* by_created_at, descending: createdAt, ties by insertion (_creationTime)
Newer(a, b) ==
    \/ a.createdAt > b.createdAt
    \/ a.createdAt = b.createdAt /\ a._id > b._id

RECURSIVE InsertDesc(_, _)
InsertDesc(s, r) ==
    IF s = <<>> THEN <<r>>
    ELSE IF Newer(r, Head(s)) THEN <<r>> \o s
    ELSE <<Head(s)>> \o InsertDesc(Tail(s), r)

\* the first n records of the table in index order, descending
RECURSIVE OrderDescUpTo(_, _)
OrderDescUpTo(table, n) ==
    IF n = 0 THEN <<>>
    ELSE InsertDesc(OrderDescUpTo(table, n - 1), table[n])

OrderDesc(table) == OrderDescUpTo(table, Len(table))

Take(s, n) == SubSeq(s, 1, IF n <= Len(s) THEN n ELSE Len(s))

cappedLimit(limit) == IF IsSome(limit) THEN Get(limit) ELSE DefaultLimit

\* list without the by_created_at index: latest insertion first
listMutInsertionOrder(table, limit) ==
    Take([k \in 1..Len(table) |-> table[Len(table) + 1 - k]], cappedLimit(limit))

\* list handler: query("images").withIndex("by_created_at").order("desc").take(n)
list(table, limit) == Take(OrderDesc(table), cappedLimit(limit))

\* ------------------------------------------------- inputs and outcomes
Prompt == "a lighthouse at dusk"

\* generate arguments as a client may send them (numImages and provider are
\* optional; the provider and the ratio may be strings the validators refuse)
AllArgs ==
    [prompt : {Prompt},
     aspectRatio : AspectRatios \cup {"2:1"},
     resolution : {"1K", "4K"},
     outputFormat : {"png", "webp"},
     numImages : {None, Some(NaN)} \cup {Some(Num(n)) : n \in {-1, 0, 1, 2, 3, 4, 7}},
     provider : {None, Some("fal"), Some("huggingface"), Some("unknown")}]

\* the arguments used when several invocations run together
FewArgs ==
    [prompt : {Prompt},
     aspectRatio : {"16:9"},
     resolution : {"4K"},
     outputFormat : {"webp"},
     numImages : {None},
     provider : {None, Some("huggingface")}]

\* process.env as deployed: both credentials set, unset, or set to ""
Envs ==
    {[HF_TOKEN |-> Some("hf-secret"), FAL_KEY |-> Some("fal-secret")],
     [HF_TOKEN |-> None, FAL_KEY |-> None],
     [HF_TOKEN |-> Some(""), FAL_KEY |-> Some("")]}

\* what fal.subscribe may resolve to: data.images (possibly undefined, with
\* entries whose url is undefined or empty) and requestId (possibly undefined)
FalResults ==
    [images : {None, Some(<<>>), Some(<<Some("")>>), Some(<<Some("fal-url-1")>>),
               Some(<<Some("fal-url-1"), None, Some("fal-url-2")>>)},
     requestId : {None, Some("req-1")}]

Limits == {None, Some(0), Some(1), Some(2)}

\* result.data?.images?.map((image) => image.url).filter(Boolean) ?? []
falImageUrls(result) ==
    IF IsSome(result.images)
    THEN LET kept == SelectSeq(Get(result.images), LAMBDA u : ~Falsy(u))
         IN  [k \in 1..Len(kept) |-> Get(kept[k])]
    ELSE <<>>

\* ---------------------------------------------------------- invocations
\* pc: the await the handler is suspended at, or how the invocation ended
InFlight == {"create", "hfCall", "falCall", "patchComplete", "catch"}
Ended == {"rejected", "returned", "threw", "interrupted"}

IdleInv ==
    [pc |-> "idle",
     args |-> CHOOSE a \in FewArgs : TRUE,
     requestedAt |-> 0,
     provider |-> "fal",
     numImages |-> Num(MinImages),
     modelName |-> FAL_MODEL_NAME,
     resolvedResolution |-> "1K",
     resolvedOutputFormat |-> "png",
     imageId |-> 0,
     width |-> 0,
     height |-> 0,
     index |-> 0,
     imageUrls |-> <<>>,
     requestId |-> None,
     thrown |-> None,
     caught |-> <<>>,
     hfSent |-> <<>>,
     gotUrls |-> <<>>,
     storeCalls |-> 0,
     falCalls |-> 0]

\* the args validator of generate
Validates(args) ==
    /\ args.aspectRatio \in AspectRatios
    /\ args.resolution \in Resolutions
    /\ args.outputFormat \in OutputFormats
    /\ args.provider = None \/ (IsSome(args.provider) /\ Get(args.provider) \in Providers)

\* handler entry up to the await of createImage
Entered(args, t) ==
    LET provider == normalizeProvider(args.provider)
    IN  [IdleInv EXCEPT
            !.pc = "create",
            !.args = args,
            !.requestedAt = t,
            !.provider = provider,
            !.numImages = clampNumImages(args.numImages),
            !.modelName = IF provider = "huggingface" THEN HUGGINGFACE_MODEL_NAME
                          ELSE FAL_MODEL_NAME,
            !.resolvedResolution = IF provider = "huggingface" THEN "1K"
                                   ELSE args.resolution,
            !.resolvedOutputFormat = IF provider = "huggingface" THEN "png"
                                     ELSE args.outputFormat]

\* a throw inside the try block: control reaches the catch clause, which
\* awaits the `failed` patch
Throw(l, error) ==
    [l EXCEPT !.pc = "catch", !.thrown = Some(error), !.caught = Append(@, error)]

\* the for-loop test and what follows the loop
LoopTest(l) ==
    IF JsLess(l.index, l.numImages) THEN [l EXCEPT !.pc = "hfCall"]
    ELSE IF Len(l.imageUrls) = 0 THEN Throw(l, NoImages)
    ELSE [l EXCEPT !.pc = "patchComplete"]

\* the try block without the credential checks
TryEntryMutNoKeyCheck(l) ==
    IF l.provider = "huggingface"
    THEN LET d == resolveHuggingFaceDimensions(l.args.aspectRatio)
         IN  LoopTest([l EXCEPT !.width = d.width, !.height = d.height,
                                !.imageUrls = <<>>, !.index = 0])
    ELSE [l EXCEPT !.pc = "falCall"]

\* the try block from its start to its first await
TryEntry(l) ==
    IF l.provider = "huggingface"
    THEN IF Falsy(env.HF_TOKEN) THEN Throw(l, MissingHfToken)
         ELSE LET d == resolveHuggingFaceDimensions(l.args.aspectRatio)
              IN  LoopTest([l EXCEPT !.width = d.width, !.height = d.height,
                                     !.imageUrls = <<>>, !.index = 0])
    ELSE IF Falsy(env.FAL_KEY) THEN Throw(l, MissingFalKey)
         ELSE [l EXCEPT !.pc = "falCall"]

\* imageUrls.unshift(url) in place of push
PushUrlMutUnshift(imageUrls, url) ==
    IF IsSome(url) THEN <<Get(url)>> \o imageUrls ELSE imageUrls

\* if (url) imageUrls.push(url)
PushUrl(imageUrls, url) ==
    IF IsSome(url) THEN Append(imageUrls, Get(url)) ELSE imageUrls

\* arguments of the createImage mutation
CreateFields(l) ==
    [prompt |-> l.args.prompt,
     model |-> l.modelName,
     provider |-> l.provider,
     aspectRatio |-> l.args.aspectRatio,
     resolution |-> l.resolvedResolution,
     outputFormat |-> l.resolvedOutputFormat,
     numImages |-> l.numImages,
     status |-> "queued",
     createdAt |-> l.requestedAt,
     updatedAt |-> l.requestedAt]

\* arguments of the updateImage mutation on success (an undefined requestId
\* is not sent)
CompleteFields(l, t) ==
    IF l.provider = "huggingface" \/ ~IsSome(l.requestId)
    THEN [status |-> "complete", imageUrls |-> Some(l.imageUrls), updatedAt |-> t]
    ELSE [status |-> "complete", imageUrls |-> Some(l.imageUrls),
          requestId |-> l.requestId, updatedAt |-> t]

\* arguments of the updateImage mutation in the catch clause
FailedFields(l, t) ==
    [status |-> "failed", error |-> Some(errorMessage(Get(l.thrown))), updatedAt |-> t]

\* an update that patches the newest record of the table, whatever id it is given
UpdatedMutLatest(id, fields) ==
    /\ db' = [db EXCEPT ![Len(db)] = Patch(@, fields)]
    /\ history' = [history EXCEPT ![Len(db)] = Append(@, fields.status)]

\* the update mutation committed on record id
Updated(id, fields) ==
    /\ db' = [db EXCEPT ![id] = Patch(@, fields)]
    /\ history' = [history EXCEPT ![id] = Append(@, fields.status)]

\* --------------------------------------------------------------- actions
Init ==
    /\ now = 0
    /\ env \in Envs
    /\ db = <<>>
    /\ history = <<>>
    /\ inv = [i \in Invs |-> IdleInv]

\* time passes
Tick ==
    /\ now < MaxClock
    /\ now' = now + 1
    /\ UNCHANGED <<env, db, history, inv>>

\* a client calls generate: the validator, then the handler up to createImage
Call(i, args) ==
    /\ inv[i].pc = "idle"
    /\ inv' = [inv EXCEPT ![i] =
                 IF Validates(args) THEN Entered(args, now)
                 ELSE [IdleInv EXCEPT !.pc = "rejected", !.args = args,
                                      !.thrown = Some(ValidationError)]]
    /\ UNCHANGED <<now, env, db, history>>

\* createImage commits and the handler runs on to its next await
Create(i) ==
    /\ inv[i].pc = "create"
    /\ db' = Append(db, NewRecord(Len(db) + 1, CreateFields(inv[i])))
    /\ history' = Append(history, <<>>)
    /\ inv' = [inv EXCEPT ![i] = TryEntry([@ EXCEPT !.imageId = Len(db) + 1])]
    /\ UNCHANGED <<now, env>>

\* createImage is rejected: nothing is inserted, generate rejects
CreateFails(i) ==
    /\ inv[i].pc = "create"
    /\ inv' = [inv EXCEPT ![i] = [@ EXCEPT !.pc = "threw", !.thrown = Some(MutationError)]]
    /\ UNCHANGED <<now, env, db, history>>

\* one loop iteration: textToImage, storage.store, storage.getUrl
HfImage(i, gotUrl) ==
    LET l == inv[i]
        url == IF gotUrl THEN Some(StorageUrl(l.index + 1)) ELSE None
    IN  /\ l.pc = "hfCall"
        /\ inv' = [inv EXCEPT ![i] =
                     LoopTest([l EXCEPT
                        !.hfSent = Append(@, <<l.width, l.height>>),
                        !.storeCalls = @ + 1,
                        !.gotUrls = Append(@, gotUrl),
                        !.imageUrls = PushUrl(@, url),
                        !.index = @ + 1])]
        /\ UNCHANGED <<now, env, db, history>>

\* hf.textToImage throws
HfCallThrows(i, error) ==
    LET l == inv[i]
    IN  /\ l.pc = "hfCall"
        /\ inv' = [inv EXCEPT ![i] =
                     Throw([l EXCEPT !.hfSent = Append(@, <<l.width, l.height>>)], error)]
        /\ UNCHANGED <<now, env, db, history>>

\* ctx.storage.store throws
HfStoreThrows(i) ==
    LET l == inv[i]
    IN  /\ l.pc = "hfCall"
        /\ inv' = [inv EXCEPT ![i] =
                     Throw([l EXCEPT !.hfSent = Append(@, <<l.width, l.height>>),
                                     !.storeCalls = @ + 1], StorageError)]
        /\ UNCHANGED <<now, env, db, history>>

\* fal.subscribe resolves
FalResult(i, result) ==
    /\ inv[i].pc = "falCall"
    /\ inv' = [inv EXCEPT ![i] = [@ EXCEPT !.pc = "patchComplete",
                                           !.falCalls = @ + 1,
                                           !.imageUrls = falImageUrls(result),
                                           !.requestId = result.requestId]]
    /\ UNCHANGED <<now, env, db, history>>

\* fal.subscribe throws
FalThrows(i, error) ==
    /\ inv[i].pc = "falCall"
    /\ inv' = [inv EXCEPT ![i] = Throw([@ EXCEPT !.falCalls = @ + 1], error)]
    /\ UNCHANGED <<now, env, db, history>>

\* the empty-result check placed after the `complete` patch
PatchCompleteMutThenThrows(i) ==
    /\ inv[i].pc = "patchComplete"
    /\ Updated(inv[i].imageId, CompleteFields(inv[i], now))
    /\ inv' = [inv EXCEPT ![i] = Throw(@, NoImages)]
    /\ UNCHANGED <<now, env>>

\* the `complete` patch commits and generate returns
PatchComplete(i) ==
    /\ inv[i].pc = "patchComplete"
    /\ Updated(inv[i].imageId, CompleteFields(inv[i], now))
    /\ inv' = [inv EXCEPT ![i] = [@ EXCEPT !.pc = "returned"]]
    /\ UNCHANGED <<now, env>>

\* the `complete` patch is rejected: the catch clause takes over
PatchCompleteFails(i) ==
    /\ inv[i].pc = "patchComplete"
    /\ inv' = [inv EXCEPT ![i] = Throw(@, MutationError)]
    /\ UNCHANGED <<now, env, db, history>>

\* a catch clause that rethrows without patching the record
CatchMutNoPatch(i) ==
    /\ inv[i].pc = "catch"
    /\ inv' = [inv EXCEPT ![i] = [@ EXCEPT !.pc = "threw"]]
    /\ UNCHANGED <<now, env, db, history>>

\* the `failed` patch commits and the caught error is rethrown
Catch(i) ==
    /\ inv[i].pc = "catch"
    /\ Updated(inv[i].imageId, FailedFields(inv[i], now))
    /\ inv' = [inv EXCEPT ![i] = [@ EXCEPT !.pc = "threw"]]
    /\ UNCHANGED <<now, env>>

\* the `failed` patch is rejected inside the catch clause: its error escapes
CatchFails(i) ==
    /\ inv[i].pc = "catch"
    /\ inv' = [inv EXCEPT ![i] = [@ EXCEPT !.pc = "threw", !.thrown = Some(MutationError)]]
    /\ UNCHANGED <<now, env, db, history>>

\* the process running the action dies at an await
Interrupt(i) ==
    /\ inv[i].pc \in InFlight
    /\ inv' = [inv EXCEPT ![i] = [IdleInv EXCEPT !.pc = "interrupted",
                                                 !.args = inv[i].args,
                                                 !.imageId = inv[i].imageId]]
    /\ UNCHANGED <<now, env, db, history>>

\* a client runs the list query: it reads the table and writes nothing
List(limit) ==
    /\ cappedLimit(limit) >= 0
    /\ UNCHANGED vars

\* one invocation, every argument value, every outcome of the calls it makes
Next ==
    \/ Tick
    \/ \E args \in AllArgs : Call(1, args)
    \/ Create(1)
    \/ CreateFails(1)
    \/ \E gotUrl \in BOOLEAN : HfImage(1, gotUrl)
    \/ \E error \in ProviderThrows : HfCallThrows(1, error)
    \/ HfStoreThrows(1)
    \/ \E result \in FalResults : FalResult(1, result)
    \/ \E error \in ProviderThrows : FalThrows(1, error)
    \/ PatchComplete(1)
    \/ PatchCompleteFails(1)
    \/ Catch(1)
    \/ CatchFails(1)
    \/ Interrupt(1)
    \/ \E limit \in Limits : List(limit)

Spec == Init /\ [][Next]_vars

\* the same, with a record store whose mutations always commit
NextStoreOk ==
    \/ Tick
    \/ \E args \in AllArgs : Call(1, args)
    \/ Create(1)
    \/ \E gotUrl \in BOOLEAN : HfImage(1, gotUrl)
    \/ \E error \in ProviderThrows : HfCallThrows(1, error)
    \/ HfStoreThrows(1)
    \/ \E result \in FalResults : FalResult(1, result)
    \/ \E error \in ProviderThrows : FalThrows(1, error)
    \/ PatchComplete(1)
    \/ Catch(1)
    \/ Interrupt(1)
    \/ \E limit \in Limits : List(limit)

SpecStoreOk == Init /\ [][NextStoreOk]_vars

\* several invocations running together, on a few argument values
NextConcurrent ==
    \/ Tick
    \/ \E i \in Invs, args \in FewArgs : Call(i, args)
    \/ \E i \in Invs : Create(i)
    \/ \E i \in Invs, gotUrl \in BOOLEAN : HfImage(i, gotUrl)
    \/ \E i \in Invs : FalResult(i, [images |-> Some(<<Some("fal-url-1")>>),
                                     requestId |-> Some("req-1")])
    \/ \E i \in Invs : FalThrows(i, Err("provider request failed"))
    \/ \E i \in Invs : PatchComplete(i)
    \/ \E i \in Invs : Catch(i)
    \/ \E limit \in Limits : List(limit)

\* both credentials are configured
InitConcurrent ==
    /\ Init
    /\ ~Falsy(env.HF_TOKEN)
    /\ ~Falsy(env.FAL_KEY)

SpecConcurrent == InitConcurrent /\ [][NextConcurrent]_vars

\* records of generations that completed before time 0
EarlierTable ==
    [id \in 1..DefaultLimit |->
        Patch(NewRecord(id, [prompt |-> Prompt,
                             model |-> HUGGINGFACE_MODEL_NAME,
                             provider |-> "huggingface",
                             aspectRatio |-> "1:1",
                             resolution |-> "1K",
                             outputFormat |-> "png",
                             numImages |-> Num(MinImages),
                             status |-> "queued",
                             createdAt |-> 0,
                             updatedAt |-> 0]),
              [status |-> "complete", imageUrls |-> Some(<<StorageUrl(1)>>)])]

\* the gallery: the table is empty or already holds the records of earlier
\* generations, HF_TOKEN is configured
InitGallery ==
    /\ now = 0
    /\ env \in {e \in Envs : ~Falsy(e.HF_TOKEN)}
    /\ db \in {<<>>, EarlierTable}
    /\ history = [id \in 1..Len(db) |-> <<"complete">>]
    /\ inv = [i \in Invs |-> IdleInv]

\* huggingface generations running together while clients list the gallery
NextGallery ==
    \/ Tick
    \/ \E i \in Invs, args \in FewArgs :
          args.provider = Some("huggingface") /\ Call(i, args)
    \/ \E i \in Invs : Create(i)
    \/ \E i \in Invs, gotUrl \in BOOLEAN : HfImage(i, gotUrl)
    \/ \E i \in Invs : PatchComplete(i)
    \/ \E i \in Invs : Catch(i)
    \/ \E limit \in Limits : List(limit)

SpecGallery == InitGallery /\ [][NextGallery]_vars

\* ================================================================ claims
\* invocations whose handler is running or has ended with its locals intact
Live == {i \in Invs : inv[i].pc \notin {"idle", "rejected", "interrupted"}}

\* invocations that got past createImage
Created == {i \in Live : inv[i].imageId > 0}

Terminal == {"complete", "failed"}

\* C1: every record is `queued` from insertion until a single terminal
\* patch: at most one `complete` or `failed` patch is ever applied to it,
\* never both, and its status is the one that patch set.
C1_SingleTerminalPatch ==
    \A id \in 1..Len(db) :
        /\ Len(history[id]) <= 1
        /\ history[id] = <<>> => db[id].status = "queued"
        /\ history[id] # <<>> =>
              /\ history[id][1] \in Terminal
              /\ db[id].status = history[id][1]

\* the `complete` patch was rejected, the catch clause then applied `failed`
C1_Witness ==
    \E i \in Created :
        /\ inv[i].pc = "threw"
        /\ inv[i].caught = <<MutationError>>
        /\ history[inv[i].imageId] = <<"failed">>
        /\ db[inv[i].imageId].status = "failed"

\* C2: imageUrls is populated exactly when status is `complete`, and a
\* `complete` record has at least one image URL.
C2_UrlsIffCompleteNonEmpty ==
    \A id \in 1..Len(db) :
        /\ IsSome(db[id].imageUrls) <=> db[id].status = "complete"
        /\ db[id].status = "complete" =>
              IsSome(db[id].imageUrls) /\ Len(Get(db[id].imageUrls)) >= 1

\* C3 as claimed: a failure after the record was created is caught once, the
\* record ends `failed` with a non-empty error, generate rejects with that
\* same failure, and an invocation that returns has met no failure.
C3_FailureAlwaysRecorded ==
    \A i \in Created :
        /\ Len(inv[i].caught) <= 1
        /\ inv[i].pc = "returned" => inv[i].caught = <<>>
        /\ inv[i].pc = "threw" =>
              /\ Len(inv[i].caught) = 1
              /\ db[inv[i].imageId].status = "failed"
              /\ IsSome(db[inv[i].imageId].error)
              /\ Get(db[inv[i].imageId].error) # ""
              /\ inv[i].thrown = Some(inv[i].caught[1])

\* C3 amended: a failure after the record was created is caught once and one
\* `failed` patch is issued whose error is the Error's message (the fixed
\* text when the thrown value is no Error, so it is empty only when that
\* message is empty).  When the patch commits the record is `failed` with
\* that error and generate rejects with the caught failure; when the patch is
\* rejected the record stays `queued` and generate rejects with the patch's
\* error.  An invocation that returns has met no failure.
C3_FailureRecordedWhenPatchCommits ==
    \A i \in Created :
        LET l == inv[i]
            rec == db[l.imageId]
        IN  /\ Len(l.caught) <= 1
            /\ l.pc = "catch" => Len(l.caught) = 1 /\ rec.status = "queued"
            /\ l.pc = "returned" => l.caught = <<>> /\ rec.status = "complete"
            /\ l.pc = "threw" =>
                  /\ Len(l.caught) = 1
                  /\ \/ /\ history[l.imageId] = <<"failed">>
                        /\ rec.status = "failed"
                        /\ rec.error =
                              Some(IF l.caught[1].isError THEN l.caught[1].message
                                   ELSE "Unexpected image generation error.")
                        /\ l.caught[1].isError /\ l.caught[1].message # ""
                              => Get(rec.error) # ""
                        /\ l.thrown = Some(l.caught[1])
                     \/ /\ history[l.imageId] = <<>>
                        /\ rec.status = "queued"
                        /\ l.thrown = Some(MutationError)

\* a provider call threw a value that is no Error; the record is `failed`
\* with the fixed text and generate rejected with the thrown value
C3_Witness ==
    \E i \in Created :
        /\ inv[i].pc = "threw"
        /\ inv[i].caught = <<NonError>>
        /\ inv[i].thrown = Some(NonError)
        /\ db[inv[i].imageId].status = "failed"
        /\ db[inv[i].imageId].error = Some("Unexpected image generation error.")

\* C4 as claimed: an invocation that has returned or thrown has inserted
\* exactly one record, and that record is `complete` or `failed`.
C4_NeverQueuedAtReturn ==
    /\ Len(db) = Cardinality({i \in Invs : inv[i].imageId > 0})
    /\ \A i \in Live :
          inv[i].pc \in {"returned", "threw"} =>
              /\ inv[i].imageId \in 1..Len(db)
              /\ db[inv[i].imageId].status \in Terminal

\* C4 amended: an invocation inserts at most one record, and exactly one
\* once createImage has committed.  When it returns a result its record is
\* `complete`.  When it throws, either createImage was rejected and there is
\* no record, or the record is `failed`, or the `failed` patch was rejected
\* and the record is still `queued`.  A record is `queued` only while its
\* invocation is in flight, after an interruption, or after such a rejected
\* `failed` patch.
C4_TerminalAtReturnUnlessPatchRejected ==
    /\ Len(db) = Cardinality({i \in Invs : inv[i].imageId > 0})
    /\ \A i, j \in Invs :
          inv[i].imageId > 0 /\ inv[i].imageId = inv[j].imageId => i = j
    /\ \A i \in Invs :
          LET l == inv[i]
          IN  /\ l.imageId \in 0..Len(db)
              /\ l.pc \in {"hfCall", "falCall", "patchComplete", "catch", "returned"}
                    => l.imageId > 0
              /\ l.pc \in {"idle", "rejected", "create"} => l.imageId = 0
              /\ l.pc = "returned" => db[l.imageId].status = "complete"
              /\ l.pc = "threw" =>
                    \/ l.imageId = 0 /\ l.thrown = Some(MutationError)
                    \/ l.imageId > 0 /\ db[l.imageId].status = "failed"
                    \/ /\ l.imageId > 0
                       /\ db[l.imageId].status = "queued"
                       /\ history[l.imageId] = <<>>
                       /\ l.thrown = Some(MutationError)
              /\ l.imageId > 0 /\ db[l.imageId].status = "queued" =>
                    \/ l.pc \in InFlight \cup {"interrupted"}
                    \/ l.pc = "threw" /\ l.thrown = Some(MutationError)

\* generate threw after the `failed` patch was rejected: the record it
\* inserted is still `queued`
C4_Witness ==
    \E i \in Created :
        /\ inv[i].pc = "threw"
        /\ inv[i].caught # <<>>
        /\ inv[i].thrown = Some(MutationError)
        /\ db[inv[i].imageId].status = "queued"

\* huggingface invocations that passed the HF_TOKEN check
HfRuns ==
    {i \in Created : inv[i].provider = "huggingface" /\ ~Falsy(env.HF_TOKEN)}

\* the URLs of the per-image calls that yielded one, in call order
YieldedUrls(gotUrls) ==
    LET calls == SelectSeq([k \in 1..Len(gotUrls) |-> k], LAMBDA k : gotUrls[k])
    IN  [m \in 1..Len(calls) |-> StorageUrl(calls[m])]

C6_UnknownProviderFallsBack ==
    \A i \in Invs :
        LET l == inv[i]
        IN  /\ l.pc # "idle"
            /\ Validates([l.args EXCEPT !.provider = None])
            /\ l.args.provider \notin {Some("fal"), Some("huggingface")}
            => /\ l.pc # "rejected"
               /\ l.provider = "fal"
               /\ l.hfSent = <<>>
               /\ l.imageId > 0 => db[l.imageId].provider = "fal"

\* C7 as claimed: no numImages value is rejected, and the count used by the
\* handler and stored in the record is the input clamped into 1..4 (1 when
\* unset).
C7_NumImagesClamped ==
    \A i \in Invs :
        LET l == inv[i]
            given == l.args.numImages
        IN  /\ l.pc # "idle" /\ Validates([l.args EXCEPT !.numImages = None])
                  => l.pc # "rejected"
            /\ i \in Live =>
                  /\ ~l.numImages.nan
                  /\ l.numImages.val \in 1..4
                  /\ given = None => l.numImages.val = 1
                  /\ given # None /\ ~Get(given).nan =>
                        l.numImages.val =
                           IF Get(given).val < 1 THEN 1
                           ELSE IF Get(given).val > 4 THEN 4
                           ELSE Get(given).val
                  /\ l.imageId > 0 => db[l.imageId].numImages = l.numImages
                  /\ Len(l.hfSent) <= l.numImages.val

\* C8: for every limit, list returns min(limit, number of records) records
\* (limit 24 when unset), all of them distinct records of the table, in
\* descending createdAt, and no record left out was created after one that
\* is returned (the List action itself leaves every variable unchanged).
C8_ListNewestFirst ==
    \A limit \in Limits :
        LET answer == list(db, limit)
            wanted == IF limit = None THEN 24 ELSE Get(limit)
            ids == {answer[k]._id : k \in 1..Len(answer)}
        IN  /\ Len(answer) = IF wanted <= Len(db) THEN wanted ELSE Len(db)
            /\ Cardinality(ids) = Len(answer)
            /\ \A k \in 1..Len(answer) :
                  /\ answer[k]._id \in 1..Len(db)
                  /\ answer[k] = db[answer[k]._id]
            /\ \A k \in 1..(Len(answer) - 1) :
                  answer[k].createdAt >= answer[k + 1].createdAt
            /\ \A id \in 1..Len(db) :
                  id \notin ids /\ answer # <<>> =>
                     db[id].createdAt <= answer[Len(answer)].createdAt

\* two generations ran together on top of 24 earlier records; the one that
\* started later inserted first and its record is still `queued` while the
\* other `failed`; list(2) gives these two, the later-started one
\* first, and list() gives 24 of the 26 records
C8_Witness ==
    /\ Len(db) = DefaultLimit + 2
    /\ db[Len(db) - 1].createdAt > db[Len(db)].createdAt
    /\ db[Len(db) - 1].status = "queued"
    /\ db[Len(db)].status = "failed"
    /\ list(db, Some(2)) = <<db[Len(db) - 1], db[Len(db)]>>
    /\ Len(list(db, None)) = DefaultLimit

\* invocations that read a missing (undefined or empty) credential
NoCredential ==
    {i \in Created :
        \/ inv[i].provider = "huggingface" /\ Falsy(env.HF_TOKEN)
        \/ inv[i].provider = "fal" /\ Falsy(env.FAL_KEY)}

Distance(a, b) == IF a >= b THEN a - b ELSE b - a

\* w is the multiple of 64, at least 64, nearest to 1024 * part / larger
NearestMultiple(w, part, larger) ==
    /\ w % 64 = 0
    /\ w >= 64
    /\ \/ 2 * Distance(w * larger, 1024 * part) <= 64 * larger
       \/ w = 64 /\ 1024 * part < 64 * larger

Own(i) == db[inv[i].imageId]

\* a step writes the locals of at most one invocation, and inserts or
\* patches a record only as a step of the invocation that holds its id
StepOfOneOwner ==
    /\ \A i, j \in Invs : inv'[i] # inv[i] /\ inv'[j] # inv[j] => i = j
    /\ \A i \in Invs : inv[i].imageId > 0 => inv'[i].imageId = inv[i].imageId
    /\ Len(db') >= Len(db)
    /\ \A id \in 1..Len(db') :
          (id > Len(db) \/ db'[id] # db[id]) =>
             \E i \in Invs :
                /\ inv'[i] # inv[i]
                /\ inv'[i].imageId = id
                /\ IF id > Len(db) THEN inv[i].pc = "create"
                   ELSE inv[i].imageId = id

\* no two invocations hold the same record, and each record shows what its
\* own invocation asked for and got
OutcomeIsOwn ==
    /\ \A i, j \in Created : inv[i].imageId = inv[j].imageId => i = j
    /\ \A i \in Created :
          LET l == inv[i]
              r == Own(i)
          IN  /\ r.provider = normalizeProvider(l.args.provider)
              /\ r.createdAt = l.requestedAt
              /\ l.provider = "huggingface" => l.imageUrls = YieldedUrls(l.gotUrls)
              /\ l.pc \in InFlight =>
                    /\ r.status = "queued"
                    /\ r.imageUrls = None /\ r.requestId = None /\ r.error = None
              /\ l.pc = "returned" =>
                    /\ r.status = "complete"
                    /\ r.imageUrls = Some(l.imageUrls)
                    /\ r.requestId = (IF l.provider = "fal" THEN l.requestId ELSE None)
                    /\ r.error = None
              /\ l.pc = "threw" =>
                    /\ r.status = "failed"
                    /\ r.error = Some(errorMessage(Get(l.thrown)))
                    /\ r.imageUrls = None /\ r.requestId = None

InputFields ==
    {"_id", "prompt", "model", "provider", "aspectRatio", "resolution",
     "outputFormat", "numImages", "createdAt"}

\* a step keeps every record, never touches an input field, changes a record
\* only by taking it from queued to complete or failed, and, where it writes
\* the table, leaves what any list query returns for a complete or failed
\* record as it was
StepKeepsRecords ==
    /\ Len(db') >= Len(db)
    /\ \A id \in 1..Len(db) :
          /\ \A f \in InputFields : db'[id][f] = db[id][f]
          /\ db'[id] # db[id] =>
                /\ db[id].status = "queued"
                /\ db'[id].status \in Terminal
    /\ \/ db' = db
       \/ \A limit \in Limits :
             LET before == list(db, limit)
                 after == list(db', limit)
             IN  \A k \in 1..Len(before), m \in 1..Len(after) :
                    /\ before[k]._id = after[m]._id
                    /\ before[k].status \in Terminal
                    => after[m] = before[k]

\* C12: once a record is inserted its prompt, model, provider, aspectRatio,
\* resolution, outputFormat, numImages and createdAt never change; its
\* status, imageUrls, requestId, error and updatedAt change only in the one
\* patch that takes it from queued to complete or failed; so two list
\* queries that both return a record after that patch return the same field
\* values for it.
C12_FieldsFrozenAfterTerminalPatch == [][StepKeepsRecords]_vars

\* a fal record patched to complete one clock value after its insertion,
\* with its URLs and request id, its input fields those of the request, and
\* returned by the list query
C12_Witness ==
    /\ Len(db) = 1
    /\ inv[1].pc = "returned"
    /\ db[1].status = "complete"
    /\ db[1].createdAt = 0 /\ db[1].updatedAt = 1
    /\ db[1].imageUrls = Some(<<"fal-url-1", "fal-url-2">>)
    /\ db[1].requestId = Some("req-1")
    /\ db[1].resolution = "4K" /\ db[1].numImages = Num(MaxImages)
    /\ history[1] = <<"complete">>
    /\ list(db, None) = <<db[1]>>

====
